---- MODULE Spec2Model ----
(***************************************************************************)
(* Gesture-controlled two-channel audio engine (SynthEngine / LoopChannel) *)
(* and the App handlers that drive it.                                     *)
(*                                                                         *)
(* Representation.                                                         *)
(*  - Time is counted in units of 1/16 ms, so that the 16th-note duration  *)
(*    60/bpm*0.25 s is an integer for the tempi used (128 bpm: 1875).      *)
(*  - Every stored instant (nextNoteTime, the due time of a timeout, the   *)
(*    time handed to a generator) is kept RELATIVE to ctx.currentTime:     *)
(*    "ctx.currentTime + 0.1" is the value LookAhead, and the passing of   *)
(*    time (Tick) lowers every stored instant by the quantum.              *)
(*  - An AudioParam is represented by the target of its last               *)
(*    setTargetAtTime call (or its construction value), in integer units:  *)
(*    gains in thousandths, frequencies in Hz.                             *)
(*  - A channel record also carries the window timeouts the channel has    *)
(*    armed and not yet fired or cleared (timeouts) and the generator      *)
(*    calls made during the last step (out).                               *)
(*  - lastOp names the call made by the last step, with its arguments.     *)
(*  - nextNoteTime of a channel that is neither playing nor holds a        *)
(*    timeout is dead (start() overwrites it before scheduler() reads it); *)
(*    its stale value is not aged by Tick.                                 *)
(***************************************************************************)
EXTENDS Integers, Sequences, FiniteSets, TLC

VARIABLES chan, engineDogMode, appState, refs, lastOp

vars == <<chan, engineDogMode, appState, refs, lastOp>>

Hands == {"left", "right"}

\* ---------------------------------------------------------------- bounds
\* A wake may fire up to MaxLate quanta after it falls due.
MaxLate == 4
\* The capped specifications run a wake only while the channel has
\* dispatched fewer than MaxStep steps since its start.
MaxStep == 2
\* The override specification runs a wake only while the channel has
\* dispatched fewer than MaxDogStep steps since its start.
MaxDogStep == 4

\* ------------------------------------------------------------- constants
UnitsPerMs == 4 * 4
UnitsPerSecond == 1000 * UnitsPerMs
\* window.setTimeout(..., 25)
TimerInterval == 25 * UnitsPerMs
\* ctx.currentTime + 0.1
LookAhead == 100 * UnitsPerMs
\* time passes in quanta of one timer interval
Quantum == TimerInterval
Horizon == MaxLate * Quantum
DefaultBpm == 128
DOG_DETECTION_INTERVAL_FRAMES == 30
DOG_MODE_COOLDOWN_MS == 3000
MinBpm == 40
MaxBpm == 300
PatternLength == 16

Max(a, b) == IF a > b THEN a ELSE b
Min(a, b) == IF a < b THEN a ELSE b

\* ---------------------------------------------------------- loop catalog
NoLoop == "none"
AVAILABLE_LOOPS ==
  {"drum_house", "drum_break", "synth_neon", "synth_bass",
   "amb_space", "amb_pads", "perc_glitch", "perc_shaker"}
\* variant: an id outside the catalog is taken as a loop
FindLoopAny(loopId) == loopId

\* AVAILABLE_LOOPS.find(l => l.id === loopId) || null
FindLoop(loopId) == IF loopId \in AVAILABLE_LOOPS THEN loopId ELSE NoLoop
StartsWith(id, prefix) ==
  CASE prefix = "amb" -> id \in {"amb_space", "amb_pads"}
    [] prefix = "perc" -> id \in {"perc_glitch", "perc_shaker"}
    [] OTHER -> FALSE

\* loop ids offered to the sequencer actions
SeqLoops == {"drum_house", "synth_bass"}

\* --------------------------------------------------------------- effects
\* control values and gains are in thousandths, frequencies in Hz
One == 1000
EffectTypes == {"NONE", "VOLUME", "LPF", "HPF", "REVERB", "DELAY", "FLANGER"}
Axes == {"x", "y", "z", "spread"}
DefaultGain == 800
DefaultFilterFreq == 20000
RotOpenFreq == 22000
FistSpread == 150

\* ------------------------------------------------------- channel record
InitChannel ==
  [ bpm |-> DefaultBpm,
    isPlaying |-> FALSE,
    currentLoop |-> NoLoop,
    nextNoteTime |-> 0,
    currentStep |-> 0,
    timerID |-> 0,
    isDogMode |-> FALSE,
    presence |-> 0,
    timeouts |-> {},
    out |-> <<>>,
    xEffect |-> "NONE",
    yEffect |-> "NONE",
    zEffect |-> "NONE",
    spreadEffect |-> "NONE",
    gain |-> DefaultGain,
    filterType |-> "lowpass",
    filterFreq |-> DefaultFilterFreq,
    rotType |-> "lowpass",
    rotFreq |-> RotOpenFreq,
    reverbGain |-> 0,
    delayFeedback |-> 0,
    flangerWet |-> 0,
    masterOutput |-> "connected",
    flangerLFO |-> "started" ]

\* -------------------------------------------------------------- sequencer
Voice(gen, freq) == [gen |-> gen, freq |-> freq]

\* LoopChannel.schedule: the generator calls made for one beat.  Frequencies
\* are in tenths of Hz; rnd is the outcome of Math.random() > 0.5.
DogPattern(step) ==
  (IF step = 0 THEN {Voice("distorted808", 450)} ELSE {})
  \cup (IF step = 3 THEN {Voice("distorted808", 450)} ELSE {})
  \cup (IF step = 7 THEN {Voice("distorted808", 450)} ELSE {})
  \cup (IF step = 10 THEN {Voice("distorted808", 550)} ELSE {})
  \cup (IF step = 12 THEN {Voice("distorted808", 350)} ELSE {})
  \cup (IF step = 14 THEN {Voice("distorted808", 350)} ELSE {})

NeonNote(i) == CASE i = 0 -> 2200 [] i = 1 -> 3300 [] i = 2 -> 4400 [] OTHER -> 6600

LoopPattern(id, step, rnd) ==
  IF id = "drum_house" THEN
       (IF step % 4 = 0 THEN {Voice("kick", 0)} ELSE {})
       \cup (IF step % 8 = 4 THEN {Voice("snare", 0)} ELSE {})
       \cup (IF step % 2 # 0 THEN {Voice("hihat", 0)} ELSE {})
  ELSE IF id = "drum_break" THEN
       (IF step = 0 \/ step = 10 THEN {Voice("kick", 0)} ELSE {})
       \cup (IF step = 4 \/ step = 12 THEN {Voice("snare", 0)} ELSE {})
       \cup (IF step % 2 = 0 THEN {Voice("hihat", 0)} ELSE {})
  ELSE IF id = "synth_neon" THEN
       (IF step % 2 = 0 THEN {Voice("tone", NeonNote((step \div 2) % 4))} ELSE {})
  ELSE IF id = "synth_bass" THEN
       (IF step = 0 \/ step = 8 THEN {Voice("tone", 550)} ELSE {})
       \cup (IF step = 3 \/ step = 11 THEN {Voice("tone", 1100)} ELSE {})
  ELSE IF StartsWith(id, "amb") THEN
       (IF step = 0
          THEN {Voice("pad", IF id = "amb_space" THEN 1100 ELSE 1648)}
          ELSE {})
  ELSE IF StartsWith(id, "perc") THEN
       (IF rnd THEN {Voice("perc", 0)} ELSE {})
  ELSE {}

\* variant: the override branch does not return and the loop plays as well
ScheduleFallThrough(ch, beat, rnd) ==
  (IF ch.isDogMode THEN DogPattern(beat % PatternLength) ELSE {})
  \cup (IF ch.currentLoop = NoLoop THEN {}
        ELSE LoopPattern(ch.currentLoop, beat % PatternLength, rnd))

\* variant: the override flag is not consulted
ScheduleLoopOnly(ch, beat, rnd) ==
  IF ch.currentLoop = NoLoop THEN {}
  ELSE LoopPattern(ch.currentLoop, beat % PatternLength, rnd)

\* variant: the beat is not reduced to a step of the bar
ScheduleNoWrap(ch, beat, rnd) ==
  IF ch.isDogMode THEN DogPattern(beat)
  ELSE IF ch.currentLoop = NoLoop THEN {}
  ELSE LoopPattern(ch.currentLoop, beat, rnd)

Schedule(ch, beat, rnd) ==
  IF ch.isDogMode THEN DogPattern(beat % PatternLength)
  ELSE IF ch.currentLoop = NoLoop THEN {}
  ELSE LoopPattern(ch.currentLoop, beat % PatternLength, rnd)

\* secondsPer16th = 60.0 / bpm * 0.25
SecondsPer16th(bpm) == ((60 * UnitsPerSecond) \div bpm) \div 4

\* variant: the step lasts as long as the loop's reference tempo says
NextNoteReference(ch) ==
  [ch EXCEPT !.nextNoteTime = @ + SecondsPer16th(DefaultBpm),
             !.currentStep = @ + 1]

\* variant: the step index advances by two
NextNoteSkips(ch) ==
  [ch EXCEPT !.nextNoteTime = @ + SecondsPer16th(ch.bpm),
             !.currentStep = @ + 2]

\* variant: a step advances the clock by half the step duration
NextNoteHalf(ch) ==
  [ch EXCEPT !.nextNoteTime = @ + SecondsPer16th(ch.bpm) \div 2,
             !.currentStep = @ + 1]

\* LoopChannel.nextNote
NextNote(ch) ==
  [ch EXCEPT !.nextNoteTime = @ + SecondsPer16th(ch.bpm),
             !.currentStep = @ + 1]

\* one generator dispatch: schedule(currentStep, nextNoteTime)
Event(ch, rnd) ==
  [step |-> ch.currentStep, time |-> ch.nextNoteTime,
   voices |-> Schedule(ch, ch.currentStep, rnd), dog |-> ch.isDogMode]

\* the i-th draw of Math.random() within one scheduler call
MaxBatch == (LookAhead + Horizon) \div SecondsPer16th(MaxBpm) + 2
NoDraws == [i \in 1..MaxBatch |-> FALSE]
IsPerc(ch) == ~ch.isDogMode /\ StartsWith(ch.currentLoop, "perc")
Draws(ch) == IF IsPerc(ch) THEN [1..MaxBatch -> BOOLEAN] ELSE {NoDraws}

\* variant: a wake dispatches at most one step (if for while)
SchedulerLoopOnce(ch, rnd, i) ==
  IF ch.nextNoteTime < LookAhead
  THEN NextNote([ch EXCEPT !.out = Append(@, Event(ch, rnd[Min(i, MaxBatch)]))])
  ELSE ch

\* while (nextNoteTime < ctx.currentTime + 0.1) { schedule; nextNote }
RECURSIVE SchedulerLoop(_, _, _)
SchedulerLoop(ch, rnd, i) ==
  IF ch.nextNoteTime < LookAhead
  THEN SchedulerLoop(
         NextNote([ch EXCEPT !.out = Append(@, Event(ch, rnd[Min(i, MaxBatch)]))]),
         rnd, i + 1)
  ELSE ch

\* window.setTimeout returns an id no pending timeout holds
FreshId(ch) ==
  CHOOSE n \in 1..(Cardinality(ch.timeouts) + 1) :
    \A t \in ch.timeouts : t.id # n

\* timerID = window.setTimeout(scheduler, 25)
ArmTimeout(ch) ==
  LET id == FreshId(ch) IN
  [ch EXCEPT !.timerID = id,
             !.timeouts = @ \cup {[id |-> id, due |-> TimerInterval]}]

\* variant: the next wake is armed whether or not the channel is playing
SchedulerAlwaysArms(ch, rnd) ==
  ArmTimeout(SchedulerLoop(ch, rnd, 1))

\* LoopChannel.scheduler
Scheduler(ch, rnd) ==
  LET after == SchedulerLoop(ch, rnd, 1) IN
  IF after.isPlaying THEN ArmTimeout(after) ELSE after

\* variant: start() without the isPlaying guard
StartUnguarded(ch) ==
  Scheduler([ch EXCEPT !.isPlaying = TRUE,
                       !.nextNoteTime = LookAhead,
                       !.currentStep = 0], NoDraws)

\* variant: start() resumes at the step the channel stopped on
StartKeepsStep(ch) ==
  IF ch.isPlaying THEN ch
  ELSE Scheduler([ch EXCEPT !.isPlaying = TRUE,
                            !.nextNoteTime = LookAhead], NoDraws)

\* LoopChannel.start
Start(ch) ==
  IF ch.isPlaying THEN ch
  ELSE Scheduler([ch EXCEPT !.isPlaying = TRUE,
                            !.nextNoteTime = LookAhead,
                            !.currentStep = 0], NoDraws)

\* window.clearTimeout(id)
ClearTimeout(ch, id) ==
  [ch EXCEPT !.timeouts = {t \in @ : t.id # id}]

\* variant: stop() leaves the timeout armed
StopNoClear(ch) == [ch EXCEPT !.isPlaying = FALSE]

\* LoopChannel.stop
Stop(ch) ==
  LET stopped == [ch EXCEPT !.isPlaying = FALSE] IN
  IF stopped.timerID # 0 THEN ClearTimeout(stopped, stopped.timerID) ELSE stopped

\* variant: choosing a loop restarts the sequencer clock
SetLoopRestart(ch, loopId) ==
  IF loopId = NoLoop THEN [ch EXCEPT !.currentLoop = NoLoop]
  ELSE LET set == [ch EXCEPT !.currentLoop = FindLoop(loopId)] IN
       IF set.currentLoop # NoLoop THEN Start(Stop(set)) ELSE set

\* LoopChannel.setLoop
SetLoop(ch, loopId) ==
  IF loopId = NoLoop THEN [ch EXCEPT !.currentLoop = NoLoop]
  ELSE LET set == [ch EXCEPT !.currentLoop = FindLoop(loopId)] IN
       IF ~set.isPlaying /\ set.currentLoop # NoLoop THEN Start(set) ELSE set

\* variant: a hand out of view also silences the channel's volume
SetPresenceMuting(ch, isPresent) ==
  IF ch.isDogMode THEN [ch EXCEPT !.presence = 1000]
  ELSE [ch EXCEPT !.presence = IF isPresent THEN 1000 ELSE 0,
                  !.gain = IF isPresent THEN @ ELSE 0]

\* variant: the gate follows the hand alone
SetPresencePlain(ch, isPresent) ==
  [ch EXCEPT !.presence = IF isPresent THEN 1000 ELSE 0]

\* LoopChannel.setPresence
SetPresence(ch, isPresent) ==
  IF ch.isDogMode THEN [ch EXCEPT !.presence = 1000]
  ELSE [ch EXCEPT !.presence = IF isPresent THEN 1000 ELSE 0]

\* ------------------------------------------------------- effect routing
\* the effect types the four axes of a channel reference
Mapped(ch) == {ch.xEffect, ch.yEffect, ch.zEffect, ch.spreadEffect}

\* variant: the control value is used as it comes
ApplyEffectNoClamp(ch, type, value, isMuted) ==
  LET v == IF type = "VOLUME" /\ isMuted THEN 0 ELSE value
  IN  CASE type = "VOLUME" -> [ch EXCEPT !.gain = v]
        [] type = "LPF" ->
             [ch EXCEPT !.filterType = "lowpass",
                        !.filterFreq = 100 + (((v * v) \div One) * 19900) \div One]
        [] type = "HPF" ->
             [ch EXCEPT !.filterType = "highpass",
                        !.filterFreq = (v * 10000) \div One]
        [] type = "REVERB" -> [ch EXCEPT !.reverbGain = v * 2]
        [] type = "DELAY" -> [ch EXCEPT !.delayFeedback = (v * 8) \div 10]
        [] type = "FLANGER" -> [ch EXCEPT !.flangerWet = v]
        [] OTHER -> ch

\* variant: the fist does not mute the volume
ApplyEffectNoMute(ch, type, value, isMuted) ==
  LET v == Max(0, Min(One, value))
  IN  CASE type = "VOLUME" -> [ch EXCEPT !.gain = v]
        [] type = "LPF" ->
             [ch EXCEPT !.filterType = "lowpass",
                        !.filterFreq = 100 + (((v * v) \div One) * 19900) \div One]
        [] type = "HPF" ->
             [ch EXCEPT !.filterType = "highpass",
                        !.filterFreq = (v * 10000) \div One]
        [] type = "REVERB" -> [ch EXCEPT !.reverbGain = v * 2]
        [] type = "DELAY" -> [ch EXCEPT !.delayFeedback = (v * 8) \div 10]
        [] type = "FLANGER" -> [ch EXCEPT !.flangerWet = v]
        [] OTHER -> ch

\* variant: an axis with no effect type drives the volume
ApplyEffectNoneAsVolume(ch, type, value, isMuted) ==
  LET clamped == Max(0, Min(One, value))
      v == IF type = "VOLUME" /\ isMuted THEN 0 ELSE clamped
  IN  CASE type = "LPF" ->
             [ch EXCEPT !.filterType = "lowpass",
                        !.filterFreq = 100 + (((v * v) \div One) * 19900) \div One]
        [] type = "HPF" ->
             [ch EXCEPT !.filterType = "highpass",
                        !.filterFreq = (v * 10000) \div One]
        [] type = "REVERB" -> [ch EXCEPT !.reverbGain = v * 2]
        [] type = "DELAY" -> [ch EXCEPT !.delayFeedback = (v * 8) \div 10]
        [] type = "FLANGER" -> [ch EXCEPT !.flangerWet = v]
        [] OTHER -> [ch EXCEPT !.gain = v]

\* LoopChannel.applyEffect: the target the effect's parameter is driven to
ApplyEffect(ch, type, value, isMuted) ==
  LET clamped == Max(0, Min(One, value))
      v == IF type = "VOLUME" /\ isMuted THEN 0 ELSE clamped
  IN  CASE type = "VOLUME" -> [ch EXCEPT !.gain = v]
        [] type = "LPF" ->
             [ch EXCEPT !.filterType = "lowpass",
                        !.filterFreq = 100 + (((v * v) \div One) * 19900) \div One]
        [] type = "HPF" ->
             [ch EXCEPT !.filterType = "highpass",
                        !.filterFreq = (v * 10000) \div One]
        [] type = "REVERB" -> [ch EXCEPT !.reverbGain = v * 2]
        [] type = "DELAY" -> [ch EXCEPT !.delayFeedback = (v * 8) \div 10]
        [] type = "FLANGER" -> [ch EXCEPT !.flangerWet = v]
        [] OTHER -> ch

\* variant: an inactive or muted rotation filter is left where it was
RotationFilterNoBypass(ch, rotation, isRotActive, isFist) ==
  IF isRotActive /\ ~isFist
  THEN IF rotation < -100
       THEN LET norm == ((rotation + One) * One) \div 900 IN
            [ch EXCEPT !.rotType = "lowpass",
                       !.rotFreq =
                          40 + (((((norm * norm) \div One) * norm) \div One)
                                  * 19960) \div One]
       ELSE IF rotation > 100
       THEN LET norm == ((rotation - 100) * One) \div 900 IN
            [ch EXCEPT !.rotType = "highpass",
                       !.rotFreq = 10 + (norm * 3990) \div One]
       ELSE [ch EXCEPT !.rotType = "lowpass", !.rotFreq = RotOpenFreq]
  ELSE ch

\* the dedicated rotation filter of LoopChannel.update
RotationFilter(ch, rotation, isRotActive, isFist) ==
  IF isRotActive /\ ~isFist
  THEN IF rotation < -100
       THEN LET norm == ((rotation + One) * One) \div 900 IN
            [ch EXCEPT !.rotType = "lowpass",
                       !.rotFreq =
                          40 + (((((norm * norm) \div One) * norm) \div One)
                                  * 19960) \div One]
       ELSE IF rotation > 100
       THEN LET norm == ((rotation - 100) * One) \div 900 IN
            [ch EXCEPT !.rotType = "highpass",
                       !.rotFreq = 10 + (norm * 3990) \div One]
       ELSE [ch EXCEPT !.rotType = "lowpass", !.rotFreq = RotOpenFreq]
  ELSE [ch EXCEPT !.rotType = "lowpass", !.rotFreq = RotOpenFreq]

\* variant: the axes are applied in the order spread, z, y, x
UpdateReversed(ch, x, y, spread, z, rotation, isRotActive) ==
  LET isFist == spread < FistSpread
      c1 == ApplyEffect(ch, ch.spreadEffect, spread, isFist)
      c2 == ApplyEffect(c1, ch.zEffect, z, isFist)
      c3 == ApplyEffect(c2, ch.yEffect, y, isFist)
      c4 == ApplyEffect(c3, ch.xEffect, x, isFist)
  IN  RotationFilter(c4, rotation, isRotActive, isFist)

\* variant: an update rewinds the sequencer to the first step
UpdateRewinds(ch, x, y, spread, z, rotation, isRotActive) ==
  LET isFist == spread < FistSpread
      c1 == ApplyEffect(ch, ch.xEffect, x, isFist)
      c2 == ApplyEffect(c1, ch.yEffect, y, isFist)
      c3 == ApplyEffect(c2, ch.zEffect, z, isFist)
      c4 == ApplyEffect(c3, ch.spreadEffect, spread, isFist)
  IN  [RotationFilter(c4, rotation, isRotActive, isFist) EXCEPT !.currentStep = 0]

\* LoopChannel.update
Update(ch, x, y, spread, z, rotation, isRotActive) ==
  LET isFist == spread < FistSpread
      c1 == ApplyEffect(ch, ch.xEffect, x, isFist)
      c2 == ApplyEffect(c1, ch.yEffect, y, isFist)
      c3 == ApplyEffect(c2, ch.zEffect, z, isFist)
      c4 == ApplyEffect(c3, ch.spreadEffect, spread, isFist)
  IN  RotationFilter(c4, rotation, isRotActive, isFist)

\* variant: every unreferenced effect but the reverb send is reset
ResetAllButReverb(ch) ==
  LET mapped == Mapped(ch)
      c1 == IF "VOLUME" \notin mapped
            THEN [ch EXCEPT !.gain = DefaultGain] ELSE ch
      c2 == IF "LPF" \notin mapped /\ "HPF" \notin mapped
            THEN [c1 EXCEPT !.filterFreq = DefaultFilterFreq,
                            !.filterType = "lowpass"]
            ELSE c1
      c4 == IF "DELAY" \notin mapped
            THEN [c2 EXCEPT !.delayFeedback = 0] ELSE c2
  IN  IF "FLANGER" \notin mapped THEN [c4 EXCEPT !.flangerWet = 0] ELSE c4

\* LoopChannel.resetUnmappedEffects
ResetUnmappedEffects(ch) ==
  LET mapped == Mapped(ch)
      c1 == IF "VOLUME" \notin mapped
            THEN [ch EXCEPT !.gain = DefaultGain] ELSE ch
      c2 == IF "LPF" \notin mapped /\ "HPF" \notin mapped
            THEN [c1 EXCEPT !.filterFreq = DefaultFilterFreq,
                            !.filterType = "lowpass"]
            ELSE c1
      c3 == IF "REVERB" \notin mapped
            THEN [c2 EXCEPT !.reverbGain = 0] ELSE c2
      c4 == IF "DELAY" \notin mapped
            THEN [c3 EXCEPT !.delayFeedback = 0] ELSE c3
  IN  IF "FLANGER" \notin mapped THEN [c4 EXCEPT !.flangerWet = 0] ELSE c4

\* the effect type an axis of the channel references
AxisEffect(ch, axis) ==
  CASE axis = "x" -> ch.xEffect
    [] axis = "y" -> ch.yEffect
    [] axis = "z" -> ch.zEffect
    [] axis = "spread" -> ch.spreadEffect

\* the axis assignment of LoopChannel.setMapping
AssignAxis(ch, axis, effect) ==
  CASE axis = "x" -> [ch EXCEPT !.xEffect = effect]
    [] axis = "y" -> [ch EXCEPT !.yEffect = effect]
    [] axis = "z" -> [ch EXCEPT !.zEffect = effect]
    [] axis = "spread" -> [ch EXCEPT !.spreadEffect = effect]
    [] OTHER -> ch

\* variant: the defaults are restored before the axis is reassigned
SetMappingResetFirst(ch, axis, effect) ==
  AssignAxis(ResetUnmappedEffects(ch), axis, effect)

\* LoopChannel.setMapping
SetMapping(ch, axis, effect) ==
  ResetUnmappedEffects(AssignAxis(ch, axis, effect))

\* ---------------------------------------------------------------- engine
\* variant: only the left channel takes the tempo
SetBpmLeftOnly(chs, bpm) == [chs EXCEPT !["left"].bpm = bpm]

\* SynthEngine.setBpm
SetBpm(chs, bpm) == [h \in Hands |-> [chs[h] EXCEPT !.bpm = bpm]]

\* variant: the value is passed on as given
ClampNone(newBpm) == newBpm

\* Math.max(40, Math.min(300, newBpm))
Clamp(newBpm) == Max(MinBpm, Min(MaxBpm, newBpm))

\* variant: turning override mode off leaves the channels' flags set
SetDogModeKeepsFlags(chs, dog, active) ==
  IF dog = active THEN <<chs, dog>>
  ELSE IF active
       THEN <<[h \in Hands |->
                SetPresence([chs[h] EXCEPT !.isDogMode = TRUE], TRUE)], active>>
       ELSE <<chs, active>>

\* SynthEngine.setDogMode, on the pair <<channels, _isDogMode>>
SetDogMode(chs, dog, active) ==
  IF dog = active THEN <<chs, dog>>
  ELSE LET flagged == [h \in Hands |-> [chs[h] EXCEPT !.isDogMode = active]] IN
       IF active
       THEN <<[h \in Hands |-> SetPresence(flagged[h], TRUE)], active>>
       ELSE <<flagged, active>>

\* ------------------------------------------------------------------ state
\* every step starts with no generator call recorded
Quiet == [h \in Hands |-> [chan[h] EXCEPT !.out = <<>>]]

\* the call made by the last step: its name, the hand it addresses, its
\* string argument and its numeric argument
Op(name, hand, arg, n) == [op |-> name, hand |-> hand, arg |-> arg, n |-> n]

\* the control values the application state starts with
InitValues ==
  [x |-> One \div 2, y |-> 0, z |-> 0, spread |-> 0, rotation |-> 0]

InitAppState ==
  [ status |-> "IDLE",
    bpm |-> DefaultBpm,
    isPlaying |-> FALSE,
    activeLoopId |-> [h \in Hands |-> NoLoop],
    isRotationActive |-> [h \in Hands |-> FALSE],
    values |-> [h \in Hands |-> InitValues] ]

\* the component's refs and the callback the frame loop runs.  frameCount is
\* kept modulo the detection interval, the only way it is read;
\* dogModeExpiry is the time left until the expiry instant, 0 once it has
\* passed; sinceDetection is the time since the last positive detection,
\* saturating at the cooldown; predictWebcam holds whether the frame loop
\* runs and the isRotationActive flags captured by the callback it runs
InitRefs ==
  [ frameCount |-> 0,
    dogModeExpiry |-> 0,
    sinceDetection |-> DOG_MODE_COOLDOWN_MS,
    predictWebcam |-> [live |-> FALSE,
                       isRotationActive |-> [h \in Hands |-> FALSE]] ]

\* the mappings the application state starts with
InitialMapping ==
  [ left |-> [x |-> "LPF", y |-> "VOLUME", z |-> "NONE", spread |-> "FLANGER"],
    right |-> [x |-> "DELAY", y |-> "REVERB", z |-> "NONE", spread |-> "HPF"] ]

\* a channel once the application has mounted: constructed, then given its
\* initial loop (none), tempo and mappings
MountedChannel(h) ==
  LET m == InitialMapping[h]
      c0 == [SetLoop(InitChannel, NoLoop) EXCEPT !.bpm = InitAppState.bpm]
      c1 == SetMapping(c0, "x", m.x)
      c2 == SetMapping(c1, "y", m.y)
      c3 == SetMapping(c2, "z", m.z)
  IN  SetMapping(c3, "spread", m.spread)

Mounted == [h \in Hands |-> MountedChannel(h)]

Init ==
  /\ chan = Mounted
  /\ engineDogMode = FALSE
  /\ appState = InitAppState
  /\ refs = InitRefs
  /\ lastOp = Op("init", "", "", 0)

\* ---------------------------------------------------------------- actions
\* the audio clock advances by one quantum; a timeout is at most Horizon late
Tick ==
  /\ \A h \in Hands : \A t \in chan[h].timeouts : t.due - Quantum >= -Horizon
  /\ chan' = [h \in Hands |->
       [Quiet[h] EXCEPT
          !.nextNoteTime =
             IF chan[h].isPlaying \/ chan[h].timeouts # {} THEN @ - Quantum ELSE @,
          !.timeouts = {[id |-> t.id, due |-> t.due - Quantum] : t \in @}]]
  /\ lastOp' = Op("tick", "", "", 0)
  /\ UNCHANGED <<engineDogMode, appState, refs>>

\* a due timeout of channel h fires and runs scheduler(); lastOp.n is how
\* long after its due time it fires
TimerFire(h) ==
  \E t \in chan[h].timeouts :
    /\ t.due <= 0
    /\ \E rnd \in Draws(chan[h]) :
         chan' = [Quiet EXCEPT
                    ![h] = Scheduler([@ EXCEPT !.timeouts = @ \ {t}], rnd)]
    /\ lastOp' = Op("wake", h, "", -t.due)
    /\ UNCHANGED <<engineDogMode, appState, refs>>

\* TimerFire within the step bound
Wake(h) ==
  /\ chan[h].currentStep < MaxStep
  /\ TimerFire(h)

ChannelStart(h) ==
  /\ chan' = [Quiet EXCEPT ![h] = Start(@)]
  /\ lastOp' = Op("start", h, "", 0)
  /\ UNCHANGED <<engineDogMode, appState, refs>>

ChannelStop(h) ==
  /\ chan' = [Quiet EXCEPT ![h] = Stop(@)]
  /\ lastOp' = Op("stop", h, "", 0)
  /\ UNCHANGED <<engineDogMode, appState, refs>>

\* SynthEngine.start
EngineStart ==
  /\ chan' = [h \in Hands |-> Start(Quiet[h])]
  /\ lastOp' = Op("engineStart", "", "", 0)
  /\ UNCHANGED <<engineDogMode, appState, refs>>

\* SynthEngine.stop
EngineStop ==
  /\ chan' = [h \in Hands |-> Stop(Quiet[h])]
  /\ lastOp' = Op("engineStop", "", "", 0)
  /\ UNCHANGED <<engineDogMode, appState, refs>>

\* App.handleSelectLoop; lastOp.arg is the id handed to setLoop
HandleSelectLoop(hand, loopId) ==
  LET newLoopId == IF appState.activeLoopId[hand] = loopId THEN NoLoop ELSE loopId IN
  /\ chan' = [Quiet EXCEPT ![hand] = SetLoop(@, newLoopId)]
  /\ appState' = [appState EXCEPT !.activeLoopId[hand] = newLoopId]
  /\ lastOp' = Op("selectLoop", hand, newLoopId, 0)
  /\ UNCHANGED <<engineDogMode, refs>>

\* App.handleBpmChange; lastOp.n is the value asked for
HandleBpmChange(newBpm) ==
  LET clamped == Clamp(newBpm) IN
  /\ chan' = SetBpm(Quiet, clamped)
  /\ appState' = [appState EXCEPT !.bpm = clamped]
  /\ lastOp' = Op("bpmChange", "", "", newBpm)
  /\ UNCHANGED <<engineDogMode, refs>>

\* SynthEngine.setDogMode(active)
EngineSetDogMode(active) ==
  LET r == SetDogMode(Quiet, engineDogMode, active) IN
  /\ chan' = r[1]
  /\ engineDogMode' = r[2]
  /\ lastOp' = Op("setDogMode", "", IF active THEN "true" ELSE "false", 0)
  /\ UNCHANGED <<appState, refs>>

\* LoopChannel.setPresence(isPresent) on channel h
ChannelSetPresence(h, isPresent) ==
  /\ chan' = [Quiet EXCEPT ![h] = SetPresence(@, isPresent)]
  /\ lastOp' = Op("setPresence", h, IF isPresent THEN "true" ELSE "false", 0)
  /\ UNCHANGED <<engineDogMode, appState, refs>>

\* SynthEngine.updateHand with one control frame
UpdateHand(hand, f) ==
  /\ chan' = [Quiet EXCEPT
               ![hand] = Update(@, f.x, f.y, f.spread, f.z,
                                f.rotation, f.isRotActive)]
  /\ lastOp' = Op("updateHand", hand, "", 0)
  /\ UNCHANGED <<engineDogMode, appState, refs>>

\* Update with the arguments gathered in one control frame
UpdateFrame(ch, f) ==
  Update(ch, f.x, f.y, f.spread, f.z, f.rotation, f.isRotActive)

\* the control frames of the gesture specification
GestureFrames ==
  << [x |-> One, y |-> One, spread |-> One, z |-> One,
      rotation |-> -One, isRotActive |-> TRUE],
     [x |-> One, y |-> One, spread |-> 100, z |-> One,
      rotation |-> One, isRotActive |-> TRUE],
     [x |-> One \div 2, y |-> One, spread |-> FistSpread - 1, z |-> 0,
      rotation |-> -One, isRotActive |-> TRUE],
     [x |-> 0, y |-> One \div 2, spread |-> FistSpread, z |-> One,
      rotation |-> One, isRotActive |-> TRUE],
     [x |-> One, y |-> 0, spread |-> One, z |-> One \div 2,
      rotation |-> 100, isRotActive |-> TRUE],
     [x |-> One \div 2, y |-> One \div 2, spread |-> One \div 2, z |-> One,
      rotation |-> -100, isRotActive |-> TRUE],
     [x |-> 0, y |-> One, spread |-> One \div 2, z |-> 0,
      rotation |-> 101, isRotActive |-> TRUE],
     [x |-> One, y |-> One \div 2, spread |-> One, z |-> 0,
      rotation |-> -101, isRotActive |-> TRUE],
     [x |-> One, y |-> One, spread |-> One, z |-> One,
      rotation |-> One, isRotActive |-> FALSE],
     [x |-> 0, y |-> 0, spread |-> 0, z |-> 0,
      rotation |-> 0, isRotActive |-> FALSE] >>

\* SynthEngine.updateHand with the i-th frame of GestureFrames; lastOp.n is i
GestureUpdate(hand, i) ==
  /\ chan' = [Quiet EXCEPT ![hand] = UpdateFrame(@, GestureFrames[i])]
  /\ lastOp' = Op("updateHand", hand, "", i)
  /\ UNCHANGED <<engineDogMode, appState, refs>>

\* an effect type's parameter target is at its default
AtDefault(ch, E) ==
  CASE E = "VOLUME" -> ch.gain = DefaultGain
    [] E \in {"LPF", "HPF"} ->
         ch.filterType = "lowpass" /\ ch.filterFreq = DefaultFilterFreq
    [] E = "REVERB" -> ch.reverbGain = 0
    [] E = "DELAY" -> ch.delayFeedback = 0
    [] E = "FLANGER" -> ch.flangerWet = 0
    [] OTHER -> TRUE

\* App.handleUpdateMapping -> SynthEngine.updateMapping; lastOp.n is 1 when
\* the call left the axis's former effect type unreferenced while its
\* parameter was off its default
HandleUpdateMapping(hand, axis, effect) ==
  LET old == AxisEffect(chan[hand], axis) IN
      /\ chan' = [Quiet EXCEPT ![hand] = SetMapping(@, axis, effect)]
      /\ lastOp' = Op("updateMapping", hand, "",
                      IF /\ old \notin Mapped(AssignAxis(chan[hand], axis, effect))
                         /\ ~AtDefault(chan[hand], old)
                      THEN 1 ELSE 0)
      /\ UNCHANGED <<engineDogMode, appState, refs>>

\* ---------------------------------------------------------- specifications
\* the sequencer: starts, stops, loop selection and timer wakes
Next ==
  \/ Tick
  \/ \E h \in Hands : Wake(h)
  \/ \E h \in Hands : ChannelStart(h)
  \/ \E h \in Hands : ChannelStop(h)
  \/ EngineStart
  \/ EngineStop
  \/ \E h \in Hands, l \in SeqLoops : HandleSelectLoop(h, l)

Spec == Init /\ [][Next]_vars

\* loop selection on one channel, over the whole catalog: no sequencer
\* operation of a channel reads or writes the other channel
SelectHands == {"left"}
NextSelect ==
  \/ Tick
  \/ \E h \in SelectHands : Wake(h)
  \/ \E h \in SelectHands : ChannelStop(h)
  \/ \E h \in SelectHands, l \in AVAILABLE_LOOPS : HandleSelectLoop(h, l)

SpecSelect == Init /\ [][NextSelect]_vars

\* the sequencer under tempo changes
TempoInputs == {20, 1000}
NextTempo ==
  \/ Tick
  \/ \E h \in Hands : Wake(h)
  \/ EngineStart
  \/ EngineStop
  \/ \E b \in TempoInputs : HandleBpmChange(b)

SpecTempo == Init /\ [][NextTempo]_vars

\* the engine's global settings, no time passing
BpmInputs == {-60, 0, 39, 40, 150, 300, 301}
NextEngine ==
  \/ \E b \in BpmInputs : HandleBpmChange(b)
  \/ \E a \in BOOLEAN : EngineSetDogMode(a)
  \/ \E h \in Hands, p \in BOOLEAN : ChannelSetPresence(h, p)
  \/ EngineStart
  \/ EngineStop

SpecEngine == Init /\ [][NextEngine]_vars

\* LoopChannel.schedule as a function of the override flag, the loop and the
\* beat: one due timeout on the left channel, any flag, loop and step
SchedSteps == 0..(2 * PatternLength - 1)
SchedInit ==
  \E d \in BOOLEAN, l \in AVAILABLE_LOOPS \cup {NoLoop}, s \in SchedSteps :
    /\ chan = [h \in Hands |->
         IF h = "left"
         THEN [Mounted[h] EXCEPT
                 !.isPlaying = TRUE, !.currentLoop = l, !.currentStep = s,
                 !.nextNoteTime = LookAhead - Quantum, !.timerID = 1,
                 !.timeouts = {[id |-> 1, due |-> 0]},
                 !.isDogMode = d, !.presence = IF d THEN 1000 ELSE 0]
         ELSE [Mounted[h] EXCEPT
                 !.isDogMode = d, !.presence = IF d THEN 1000 ELSE 0]]
    /\ engineDogMode = d
    /\ appState = [InitAppState EXCEPT !.activeLoopId["left"] = l]
    /\ refs = InitRefs
    /\ lastOp = Op("init", "", "", 0)

NextSched == \E h \in Hands : TimerFire(h)

SpecSched == SchedInit /\ [][NextSched]_vars

\* TimerFire within the step bound of the override specification
DogWake(h) ==
  /\ chan[h].currentStep < MaxDogStep
  /\ TimerFire(h)

\* the sequencer under override mode, with time passing and due timeouts
\* firing
NextDog ==
  \/ Tick
  \/ \E h \in Hands : DogWake(h)
  \/ EngineStart
  \/ EngineStop
  \/ \E a \in BOOLEAN : EngineSetDogMode(a)

FairSpec ==
  /\ Init /\ [][NextDog]_vars
  /\ WF_vars(Tick)
  /\ \A h \in Hands : WF_vars(DogWake(h))

\* the control frames fed to updateHand: an open hand with every axis high
\* and the wrist rolled one way, a fist, and a half-open hand rolled the
\* other way
Frames ==
  { [x |-> One, y |-> One, spread |-> One, z |-> One,
     rotation |-> -One, isRotActive |-> TRUE],
    [x |-> 0, y |-> 0, spread |-> 0, z |-> 0,
     rotation |-> 0, isRotActive |-> FALSE],
    [x |-> 0, y |-> One, spread |-> One \div 2, z |-> One \div 2,
     rotation |-> One, isRotActive |-> TRUE] }

\* the effect routing specification drives one channel: no effect
\* operation of a channel reads or writes the other channel
FxHands == {"left"}

\* effect routing: control frames and mapping changes
NextFx ==
  \/ \E h \in FxHands, f \in Frames : UpdateHand(h, f)
  \/ \E h \in FxHands, a \in Axes, e \in EffectTypes :
       HandleUpdateMapping(h, a, e)

SpecFx == Init /\ [][NextFx]_vars

\* a channel whose four axes have been given the mapping m
Remapped(ch, m) ==
  SetMapping(SetMapping(SetMapping(SetMapping(ch, "x", m.x), "y", m.y),
                        "z", m.z), "spread", m.spread)

\* gesture updates on one channel under any mapping of its axes
GestureInit ==
  \E m \in [Axes -> EffectTypes] :
    /\ chan = [h \in Hands |->
                 IF h \in FxHands THEN Remapped(Mounted[h], m) ELSE Mounted[h]]
    /\ engineDogMode = FALSE
    /\ appState = InitAppState
    /\ refs = InitRefs
    /\ lastOp = Op("init", "", "", 0)

NextGesture ==
  \E h \in FxHands, i \in 1..Len(GestureFrames) : GestureUpdate(h, i)

SpecGesture == GestureInit /\ [][NextGesture]_vars

\* ------------------------------------------------------------ application
\* wall-clock time is in milliseconds and passes in steps of ClockStep
ClockStep == 1000

\* landmark coordinates are in hundredths of the frame
Pt(x, y) == [x |-> x, y |-> y]

\* Math.sqrt, rounded down to a hundredth
Sqrt(n) == CHOOSE r \in 0..150 : r * r <= n /\ n < (r + 1) * (r + 1)

\* Math.max(0, Math.min(1, v)) on thousandths
Clamp01(v) == Max(0, Min(One, v))

\* Math.atan2(dy, dx) in degrees, for the directions the landmark sets use;
\* atan2(0, 0) is 0
Atan2Deg(dy, dx) ==
  CASE dy = 0 /\ dx >= 0 -> 0
    [] dy = 0 /\ dx < 0 -> 180
    [] dx = 0 /\ dy < 0 -> -90
    [] dx = 0 /\ dy > 0 -> 90

\* wrist (0) to middle-finger base (9), in hundredths
HandScale(landmarks) ==
  Sqrt((landmarks[0].x - landmarks[9].x) * (landmarks[0].x - landmarks[9].x)
       + (landmarks[0].y - landmarks[9].y) * (landmarks[0].y - landmarks[9].y))

\* App.calculateHandMetrics, in thousandths.  The ratio avgDist / handScale
\* is totalDist / (5 * handScale); with handScale = 0 and a positive avgDist
\* the division yields +Infinity, which Math.min(1, .) turns into 1
CalculateHandMetrics(landmarks, isRightHand) ==
  LET wrist == landmarks[0]
      middleMCP == landmarks[9]
      handScale == HandScale(landmarks)
      tipDist(idx) ==
        Sqrt((landmarks[idx].x - wrist.x) * (landmarks[idx].x - wrist.x)
             + (landmarks[idx].y - wrist.y) * (landmarks[idx].y - wrist.y))
      totalDist == tipDist(4) + tipDist(8) + tipDist(12) + tipDist(16) + tipDist(20)
      deg == Atan2Deg(middleMCP.y - wrist.y, middleMCP.x - wrist.x)
      turn == ((deg + 90) * One) \div 90
  IN  [spread |-> IF handScale = 0
                  THEN One
                  ELSE Clamp01(((((totalDist * One) \div (5 * handScale)) - 800)
                                * One) \div 900),
       z |-> Clamp01(((handScale - 5) * One) \div 25),
       rotation |-> Max(-One, Min(One, IF isRightHand THEN -turn ELSE turn))]

\* a hand's landmarks: wrist, middle-finger base, and the five fingertips
\* all at one point
Hand(wrist, middleMCP, tip) ==
  [i \in {0, 4, 8, 9, 12, 16, 20} |->
     IF i = 0 THEN wrist ELSE IF i = 9 THEN middleMCP ELSE tip]

\* the hands the landmarker reports: open and upright, open and rolled a
\* quarter turn, a fist, wrist and middle-finger base on one point, and
\* wrist and middle-finger base a hundredth apart.  No set has every
\* fingertip on the wrist
HandLandmarks ==
  << Hand(Pt(50, 80), Pt(50, 60), Pt(50, 46)),
     Hand(Pt(50, 50), Pt(70, 50), Pt(84, 50)),
     Hand(Pt(50, 80), Pt(50, 60), Pt(50, 64)),
     Hand(Pt(50, 50), Pt(50, 50), Pt(50, 30)),
     Hand(Pt(50, 50), Pt(50, 49), Pt(50, 30)) >>

\* the control values predictWebcam derives from a detected hand
Control(landmarks, isRightHand) ==
  LET indexTip == landmarks[8]
      m == CalculateHandMetrics(landmarks, isRightHand)
  IN  [x |-> Clamp01(indexTip.x * 10),
       y |-> Clamp01(One - indexTip.y * 10),
       spread |-> m.spread, z |-> m.z, rotation |-> m.rotation]

Controls ==
  [i \in 1..Len(HandLandmarks) |->
     [h \in Hands |-> Control(HandLandmarks[i], h = "right")]]

\* variant: override mode lasts through the expiry instant
IsDogActiveInclusive(expiry) == 0 <= expiry

\* Date.now() < dogModeExpiryRef.current, on the time left until expiry
IsDogActive(expiry) == 0 < expiry

\* one pass of App.predictWebcam with the models loaded and the video
\* playing.  dog is the object detector's verdict; left and right are the
\* landmarker's result for each hand, an index of HandLandmarks or 0 when
\* the hand is not detected.  lastOp.arg is "dog" after a positive
\* detection and "end" when the pass turned override mode off, lastOp.n is
\* the left hand's result, lastOp.hand is "right" when the right hand was
\* detected
PredictWebcam(dog, left, right) ==
  LET detected == dog /\ refs.frameCount % DOG_DETECTION_INTERVAL_FRAMES = 0
      expiry == IF detected THEN DOG_MODE_COOLDOWN_MS ELSE refs.dogModeExpiry
      isDogActive == IsDogActive(expiry)
      r == SetDogMode(Quiet, engineDogMode, isDogActive)
      result == [h \in Hands |-> IF h = "left" THEN left ELSE right]
      tracked(h) ==
        IF result[h] # 0
        THEN LET c == Controls[result[h]][h] IN
             Update(r[1][h], c.x, c.y, c.spread, c.z, c.rotation,
                    refs.predictWebcam.isRotationActive[h])
        ELSE r[1][h]
  IN  /\ refs.predictWebcam.live
      /\ dog => refs.frameCount % DOG_DETECTION_INTERVAL_FRAMES = 0
      /\ refs' = [refs EXCEPT
                    !.frameCount = (@ + 1) % DOG_DETECTION_INTERVAL_FRAMES,
                    !.dogModeExpiry = expiry,
                    !.sinceDetection = IF detected THEN 0 ELSE @]
      /\ engineDogMode' = r[2]
      /\ chan' = IF isDogActive
                 THEN r[1]
                 ELSE [h \in Hands |-> SetPresence(tracked(h), result[h] # 0)]
      /\ appState' =
           IF isDogActive
           THEN appState
           ELSE [appState EXCEPT
                   !.values = [h \in Hands |->
                     IF result[h] # 0
                     THEN LET c == Controls[result[h]][h] IN
                          [x |-> c.x, y |-> c.y, z |-> c.z,
                           spread |-> c.spread, rotation |-> c.rotation]
                     ELSE @[h]]]
      /\ lastOp' = Op("frame", IF right # 0 THEN "right" ELSE "",
                      CASE detected -> "dog"
                        [] engineDogMode /\ ~isDogActive -> "end"
                        [] OTHER -> "",
                      left)

\* App.startCamera with the camera granted: the engine starts and the frame
\* loop starts on the predictWebcam of the current render, which reads the
\* isRotationActive flags of that render
StartCamera ==
  /\ appState.status = "IDLE"
  /\ appState' = [appState EXCEPT !.status = "LIVE", !.isPlaying = TRUE]
  /\ chan' = [h \in Hands |-> Start(Quiet[h])]
  /\ refs' = [refs EXCEPT
                !.predictWebcam = [live |-> TRUE,
                                   isRotationActive |-> appState.isRotationActive]]
  /\ lastOp' = Op("startCamera", "", "", 0)
  /\ UNCHANGED engineDogMode

\* App.handleToggleRotation.  The render that follows makes a new
\* predictWebcam; a frame loop already running keeps calling the one it
\* started on
HandleToggleRotation(hand) ==
  /\ appState' = [appState EXCEPT !.isRotationActive[hand] = ~@]
  /\ chan' = Quiet
  /\ lastOp' = Op("toggleRotation", hand, "", 0)
  /\ UNCHANGED <<engineDogMode, refs>>

\* Date.now() advances by one clock step
DateTick ==
  /\ refs' = [refs EXCEPT
                !.dogModeExpiry = Max(0, @ - ClockStep),
                !.sinceDetection = Min(DOG_MODE_COOLDOWN_MS, @ + ClockStep)]
  /\ chan' = Quiet
  /\ lastOp' = Op("dateNow", "", "", 0)
  /\ UNCHANGED <<engineDogMode, appState>>

\* the frame loop with the object detector reporting and no hand in view
NextOverride ==
  \/ StartCamera
  \/ DateTick
  \/ \E dog \in BOOLEAN : PredictWebcam(dog, 0, 0)

SpecOverride == Init /\ [][NextOverride]_vars

\* the frame loop with the object detector reporting and each hand in or
\* out of view
OverrideHands == {0, 1}
NextOverrideEnd ==
  \/ StartCamera
  \/ DateTick
  \/ \E dog \in BOOLEAN, left \in OverrideHands, right \in OverrideHands :
       PredictWebcam(dog, left, right)

SpecOverrideEnd == Init /\ [][NextOverrideEnd]_vars

\* the frame loop with the left hand in and out of view, the rotation
\* toggle and loop selection; the detector reports nothing
NextApp ==
  \/ StartCamera
  \/ \E h \in FxHands : HandleToggleRotation(h)
  \/ \E h \in FxHands, l \in SeqLoops : HandleSelectLoop(h, l)
  \/ \E i \in 0..Len(HandLandmarks) : PredictWebcam(FALSE, i, 0)

SpecApp == Init /\ [][NextApp]_vars

\* identifiers outside the catalog and outside EffectType, next to valid ones
UnknownLoops == {"drum_house", "drum_techno"}
UnknownEffects == {"VOLUME", "CHORUS"}
UnknownAxes == {"y", "z"}
UnknownFrames == {1, 3}

\* one channel driven with recognised and unrecognised loop ids and effect
\* types, with time passing
NextUnknown ==
  \/ Tick
  \/ \E h \in FxHands : Wake(h)
  \/ \E h \in FxHands : ChannelStop(h)
  \/ \E h \in FxHands, l \in UnknownLoops : HandleSelectLoop(h, l)
  \/ \E h \in FxHands, a \in UnknownAxes, e \in UnknownEffects :
       HandleUpdateMapping(h, a, e)
  \/ \E h \in FxHands, i \in UnknownFrames : GestureUpdate(h, i)

SpecUnknown == Init /\ [][NextUnknown]_vars

\* the six operations of SynthEngine on both channels: setBpm, setDogMode,
\* start, stop, updateHand and updateMapping
EngineOpFrames == {1, 4}
EngineOpAxes == {"x"}
EngineOpEffects == {"VOLUME", "LPF"}
NextEngineOps ==
  \/ \E b \in BpmInputs : HandleBpmChange(b)
  \/ \E a \in BOOLEAN : EngineSetDogMode(a)
  \/ EngineStart
  \/ EngineStop
  \/ \E h \in Hands, i \in EngineOpFrames : GestureUpdate(h, i)
  \/ \E h \in Hands, a \in EngineOpAxes, e \in EngineOpEffects :
       HandleUpdateMapping(h, a, e)

SpecEngineOps == Init /\ [][NextEngineOps]_vars

\* control frames with values below 0 and above 1
RangeFrames ==
  { [x |-> -500, y |-> 2500, spread |-> 1500, z |-> -1,
     rotation |-> -One, isRotActive |-> TRUE],
    [x |-> 2500, y |-> -500, spread |-> -200, z |-> 1001,
     rotation |-> One, isRotActive |-> TRUE] }

\* the axes remapped under those frames
RangeAxes == {"x", "y", "spread"}

\* one channel under updates with any control values, mapping changes,
\* presence changes and override mode
NextRange ==
  \/ \E h \in FxHands, f \in RangeFrames : UpdateHand(h, f)
  \/ \E h \in FxHands, a \in RangeAxes, e \in EffectTypes :
       HandleUpdateMapping(h, a, e)
  \/ \E h \in FxHands, p \in BOOLEAN : ChannelSetPresence(h, p)
  \/ \E a \in BOOLEAN : EngineSetDogMode(a)

SpecRange == Init /\ [][NextRange]_vars

\* ------------------------------------------------------------------ claims
Events(h) == {chan[h].out[i] : i \in 1..Len(chan[h].out)}

\* C1: after any sequence of starts, stops, loop selections, engine
\* start/stop and timer wakes, a channel holds at most one pending wake.
C1_OnePendingWake ==
  \A h \in Hands : Cardinality(chan[h].timeouts) <= 1

\* start() called on a channel that has already dispatched steps
C1_Witness ==
  /\ lastOp = Op("start", "left", "", 0)
  /\ chan["left"].currentStep >= 1
  /\ Cardinality(chan["left"].timeouts) = 1

\* C2: a stopped channel holds no pending wake and dispatches nothing.
C2_StoppedIsSilent ==
  \A h \in Hands :
    ~chan[h].isPlaying => chan[h].timeouts = {} /\ chan[h].out = <<>>

\* stop() on a channel that had armed a wake and dispatched steps
C2_Witness ==
  /\ lastOp = Op("stop", "left", "", 0)
  /\ chan["left"].timerID # 0
  /\ chan["left"].currentStep >= 1
  /\ chan["left"].timeouts = {}

\* C3 as stated: every dispatched event lies inside the look-ahead window
\* [now, now + 100 ms) at the moment of dispatch, however late the wake.
C3_InsideWindow ==
  \A h \in Hands : \A e \in Events(h) : 0 <= e.time /\ e.time < LookAhead

\* C3 amended: every dispatched event lies before the end of the window and
\* no earlier than 75 ms minus the wake's lateness after now (so inside the
\* window when the wake is at most 75 ms late), and the wake dispatches every
\* event that is due.
C3_BeforeWindowEnd ==
  lastOp.op = "wake" =>
    /\ \A e \in Events(lastOp.hand) :
         /\ e.time < LookAhead
         /\ e.time >= LookAhead - TimerInterval - lastOp.n
    /\ chan[lastOp.hand].nextNoteTime >= LookAhead

\* a wake Horizon late that dispatches two events, the first one overdue
C3_Witness ==
  /\ lastOp.op = "wake"
  /\ lastOp.n = Horizon
  /\ Len(chan[lastOp.hand].out) >= 2
  /\ chan[lastOp.hand].out[1].time < 0

\* C4: selecting a valid loop on a stopped channel sets it and starts the
\* sequencer; on a running channel it replaces the loop and nothing else;
\* selecting no loop clears the loop and nothing else.
C4_SelectLoop ==
  [][\A h \in Hands :
       (lastOp'.op = "selectLoop" /\ lastOp'.hand = h) =>
         LET id == lastOp'.arg
             old == chan[h]
             new == chan'[h]
         IN /\ new.currentLoop = id
            /\ (id # NoLoop /\ ~old.isPlaying) =>
                 /\ new.isPlaying
                 /\ new.timeouts # {}
                 /\ new.currentStep = 0
                 /\ new.nextNoteTime = LookAhead
            /\ (id = NoLoop \/ old.isPlaying) =>
                 new = [old EXCEPT !.currentLoop = id, !.out = <<>>]]_vars

\* a loop replaced on a channel that has already dispatched steps
C4_Witness ==
  /\ lastOp = Op("selectLoop", "left", "synth_bass", 0)
  /\ chan["left"].isPlaying
  /\ chan["left"].currentStep >= 1
  /\ chan["left"].currentLoop = "synth_bass"

\* C5: after any tempo change, whatever value is asked for, both channels
\* hold a tempo in [40, 300].
C5_TempoInRange ==
  \A h \in Hands : MinBpm <= chan[h].bpm /\ chan[h].bpm <= MaxBpm

\* a negative tempo was asked for
C5_Witness ==
  /\ lastOp.op = "bpmChange"
  /\ lastOp.n < 0
  /\ \A h \in Hands : chan[h].bpm = MinBpm

\* C6: a tempo change leaves nextNoteTime and currentStep of both channels
\* as they were; a wake dispatches its first event at the nextNoteTime it
\* found and spaces every later advance by the step duration of the tempo
\* in force.
C6_TempoGoingForward ==
  [][/\ lastOp'.op = "bpmChange" =>
          \A h \in Hands :
            /\ chan'[h].nextNoteTime = chan[h].nextNoteTime
            /\ chan'[h].currentStep = chan[h].currentStep
     /\ lastOp'.op = "wake" =>
          LET h == lastOp'.hand
              o == chan'[h].out
              d == (60 * UnitsPerSecond) \div (chan[h].bpm * 4)
          IN /\ \A i \in 1..(Len(o) - 1) : o[i + 1].time = o[i].time + d
             /\ Len(o) > 0 =>
                  /\ o[1].time = chan[h].nextNoteTime
                  /\ chan'[h].nextNoteTime = o[Len(o)].time + d]_vars

\* a wake at 300 bpm that dispatches two events, the first at an instant
\* reached by an advance made at 128 bpm
C6_Witness ==
  /\ lastOp.op = "wake"
  /\ chan[lastOp.hand].bpm = MaxBpm
  /\ Len(chan[lastOp.hand].out) >= 2
  /\ chan[lastOp.hand].out[1].time % Quantum # 0

\* C7: an event dispatched under override mode calls no loop generator, and
\* calls the override voice exactly at steps 0, 3, 7, 10, 12, 14 of the bar.
LoopGenerators == {"kick", "snare", "hihat", "tone", "pad", "perc"}
OverrideSteps == {0, 3, 7, 10, 12, 14}
C7_OverridePattern ==
  \A h \in Hands : \A e \in Events(h) :
    e.dog =>
      /\ \A v \in e.voices : v.gen \notin LoopGenerators
      /\ (\E v \in e.voices : v.gen = "distorted808")
           <=> (e.step % PatternLength) \in OverrideSteps

\* drum_house selected, step 3 of the second bar: the hi-hat step plays the
\* override voice alone
C7_Witness ==
  /\ chan["left"].currentLoop = "drum_house"
  /\ \E e \in Events("left") :
       /\ e.dog
       /\ e.step = PatternLength + 3
       /\ e.voices = {Voice("distorted808", 450)}

\* C9: while override mode is active both presence gates target 1, whatever
\* setPresence is called with.
C9_GateForcedOpen ==
  engineDogMode => \A h \in Hands : chan[h].presence = 1000

\* setPresence(false) called while override mode is active
C9_Witness ==
  /\ engineDogMode
  /\ lastOp = Op("setPresence", "left", "false", 0)
  /\ chan["left"].presence = 1000

\* an override step the channel has still to dispatch lies within the step
\* bound of the override specification
OverrideStepAhead(h) ==
  \E k \in OverrideSteps : chan[h].currentStep <= k /\ k < MaxDogStep
OverrideFired(h) ==
  \E e \in Events(h) : \E v \in e.voices : v.gen = "distorted808"

\* C8 as stated: once override mode is active each channel eventually
\* dispatches an override voice (or override mode ends first).
C8_OverrideAlwaysPlays ==
  \A h \in Hands :
    (chan[h].isDogMode /\ OverrideStepAhead(h))
      ~> (OverrideFired(h) \/ ~chan[h].isDogMode)

\* C8 amended: once override mode is active on a channel whose sequencer is
\* running, the channel eventually dispatches an override voice, unless
\* override mode ends or the channel is stopped first.
C8_OverridePlaysWhileRunning ==
  \A h \in Hands :
    (chan[h].isDogMode /\ chan[h].isPlaying /\ OverrideStepAhead(h))
      ~> (OverrideFired(h) \/ ~chan[h].isDogMode \/ ~chan[h].isPlaying)

\* an override voice dispatched at a step other than the first, on a channel
\* with no active loop
C8_Witness ==
  /\ chan["right"].isDogMode
  /\ chan["right"].currentLoop = NoLoop
  /\ \E e \in Events("right") :
       e.step > 0 /\ \E v \in e.voices : v.gen = "distorted808"

\* C10 as stated: when setMapping leaves an effect type unreferenced by every
\* axis of the channel, that type's parameter target is at its default right
\* after the call.
C10_UnmappedAtDefault ==
  [][\A h \in Hands :
       \A E \in (Mapped(chan[h]) \ Mapped(chan'[h])) \ {"NONE"} :
         AtDefault(chan'[h], E)]_vars

\* C10 amended: as stated for volume, reverb, delay and flanger; the mappable
\* filter, which LPF and HPF share, is at its default right after the call
\* when neither LPF nor HPF is referenced any more.
C10_UnmappedAtDefaultSharedFilter ==
  [][\A h \in Hands :
       \A E \in (Mapped(chan[h]) \ Mapped(chan'[h])) \ {"NONE"} :
         IF E \in {"LPF", "HPF"}
         THEN {"LPF", "HPF"} \cap Mapped(chan'[h]) = {}
                => AtDefault(chan'[h], E)
         ELSE AtDefault(chan'[h], E)]_vars

\* setMapping has just left an effect type unreferenced whose parameter was
\* off its default, with other effects still driven off their defaults
C10_Witness ==
  /\ lastOp = Op("updateMapping", "left", "", 1)
  /\ \A E \in EffectTypes \ Mapped(chan["left"]) : AtDefault(chan["left"], E)
  /\ \E E \in Mapped(chan["left"]) : ~AtDefault(chan["left"], E)

\* C11: right after a setMapping call, calling setMapping again with the
\* same axis and effect type changes neither the mapping table nor any
\* parameter target; since the call has just set the axis, the repeated call
\* is the one that assigns an axis the effect type it already references.
C11_SetMappingIdempotent ==
  lastOp.op = "updateMapping" =>
    \A a \in Axes :
      LET ch == chan[lastOp.hand] IN
      SetMapping(ch, a, AxisEffect(ch, a)) = ch

\* the first call displaced an effect type whose parameter was off its
\* default, while the mappable filter, still referenced, is off its default
C11_Witness ==
  /\ lastOp = Op("updateMapping", "left", "", 1)
  /\ chan["left"].reverbGain = 0
  /\ "REVERB" \notin Mapped(chan["left"])
  /\ "HPF" \in Mapped(chan["left"])
  /\ chan["left"].filterType = "highpass"
  /\ chan["left"].delayFeedback > 0

\* the frame of the gesture update made by the last step
LastFrame == GestureFrames[lastOp.n]
GestureDone == lastOp.op = "updateHand" /\ lastOp.n > 0

\* C12: after an update with spread < 0.15 on a channel with an axis mapped
\* to VOLUME, the volume gain target is 0.
C12_FistMutesVolume ==
  (GestureDone /\ LastFrame.spread < FistSpread
     /\ "VOLUME" \in Mapped(chan[lastOp.hand]))
    => chan[lastOp.hand].gain = 0

\* a fist whose x and y values are 1, with VOLUME on x and y
C12_Witness ==
  /\ GestureDone
  /\ LastFrame.spread < FistSpread /\ LastFrame.x = One /\ LastFrame.y = One
  /\ chan[lastOp.hand].xEffect = "VOLUME"
  /\ chan[lastOp.hand].yEffect = "VOLUME"
  /\ chan[lastOp.hand].spreadEffect = "REVERB"
  /\ chan[lastOp.hand].gain = 0

\* every parameter target of a channel
Targets(ch) ==
  [ gain |-> ch.gain, filterType |-> ch.filterType,
    filterFreq |-> ch.filterFreq, reverbGain |-> ch.reverbGain,
    delayFeedback |-> ch.delayFeedback, flangerWet |-> ch.flangerWet,
    rotType |-> ch.rotType, rotFreq |-> ch.rotFreq ]

\* the frame f with the control value of one axis replaced
WithAxis(f, axis, v) ==
  CASE axis = "x" -> [f EXCEPT !.x = v]
    [] axis = "y" -> [f EXCEPT !.y = v]
    [] axis = "z" -> [f EXCEPT !.z = v]
    [] axis = "spread" -> [f EXCEPT !.spread = v]

ControlValues == {0, FistSpread, One}

\* C13 as stated: for an axis mapped to NONE, the update from the same
\* channel state with any other control value on that axis gives the same
\* parameter targets.
C13_NoneAxisInert ==
  [][(lastOp'.op = "updateHand" /\ lastOp'.n > 0) =>
       LET h == lastOp'.hand
           f == GestureFrames[lastOp'.n]
       IN  \A a \in Axes :
             AxisEffect(chan[h], a) = "NONE" =>
               \A v \in ControlValues :
                 Targets(UpdateFrame(chan[h], WithAxis(f, a, v)))
                   = Targets(chan'[h])]_vars

\* C13 amended: as stated for x, y and z; for spread, whose value also
\* decides the fist, when both values are on the same side of 0.15.
C13_NoneAxisInertButFist ==
  [][(lastOp'.op = "updateHand" /\ lastOp'.n > 0) =>
       LET h == lastOp'.hand
           f == GestureFrames[lastOp'.n]
       IN  \A a \in Axes :
             AxisEffect(chan[h], a) = "NONE" =>
               \A v \in ControlValues :
                 (a = "spread" =>
                    ((v < FistSpread) <=> (f.spread < FistSpread)))
                   => Targets(UpdateFrame(chan[h], WithAxis(f, a, v)))
                        = Targets(chan'[h])]_vars

\* an update with z = 1 on a channel whose z and spread axes are mapped to
\* NONE, which drove the volume and the reverb
C13_Witness ==
  /\ GestureDone
  /\ LastFrame.z = One /\ LastFrame.spread = FistSpread
  /\ chan[lastOp.hand].zEffect = "NONE"
  /\ chan[lastOp.hand].spreadEffect = "NONE"
  /\ chan[lastOp.hand].xEffect = "VOLUME"
  /\ chan[lastOp.hand].yEffect = "REVERB"
  /\ chan[lastOp.hand].reverbGain = One
  /\ chan[lastOp.hand].gain = 0

\* C14: after an update in which the rotation filter is inactive, or the
\* hand is a fist, or the rotation lies in [-0.1, 0.1], the rotation filter
\* is low-pass at 22000 Hz.
C14_RotationBypass ==
  (GestureDone /\ (\/ ~LastFrame.isRotActive
                   \/ LastFrame.spread < FistSpread
                   \/ (LastFrame.rotation >= -100 /\ LastFrame.rotation <= 100)))
    => /\ chan[lastOp.hand].rotType = "lowpass"
       /\ chan[lastOp.hand].rotFreq = RotOpenFreq

\* an active update of an open hand with the rotation at the edge of the
\* deadzone
C14_Witness ==
  /\ GestureDone
  /\ LastFrame.isRotActive /\ LastFrame.rotation = 100
  /\ LastFrame.spread >= FistSpread
  /\ chan[lastOp.hand].rotType = "lowpass"
  /\ chan[lastOp.hand].rotFreq = RotOpenFreq

\* the trigger table, step by step
DeterministicLoops ==
  {"drum_house", "drum_break", "synth_neon", "synth_bass",
   "amb_space", "amb_pads"}
Evens == {0, 2, 4, 6, 8, 10, 12, 14}
Odds == {1, 3, 5, 7, 9, 11, 13, 15}
At(steps, s, voice) == IF s \in steps THEN {voice} ELSE {}
TriggerTable(loop, s) ==
  CASE loop = "drum_house" ->
         At({0, 4, 8, 12}, s, Voice("kick", 0))
           \cup At({4, 12}, s, Voice("snare", 0))
           \cup At(Odds, s, Voice("hihat", 0))
    [] loop = "drum_break" ->
         At({0, 10}, s, Voice("kick", 0))
           \cup At({4, 12}, s, Voice("snare", 0))
           \cup At(Evens, s, Voice("hihat", 0))
    [] loop = "synth_neon" ->
         At({0, 8}, s, Voice("tone", 2200))
           \cup At({2, 10}, s, Voice("tone", 3300))
           \cup At({4, 12}, s, Voice("tone", 4400))
           \cup At({6, 14}, s, Voice("tone", 6600))
    [] loop = "synth_bass" ->
         At({0, 8}, s, Voice("tone", 550))
           \cup At({3, 11}, s, Voice("tone", 1100))
    [] loop = "amb_space" -> At({0}, s, Voice("pad", 1100))
    [] loop = "amb_pads" -> At({0}, s, Voice("pad", 1648))

\* C20: with override mode inactive, the generators dispatched at a step by
\* a deterministic catalog loop are those of the trigger table for that step
\* of the bar.
C20_TriggerTable ==
  \A h \in Hands : \A e \in Events(h) :
    (~e.dog /\ chan[h].currentLoop \in DeterministicLoops)
      => e.voices = TriggerTable(chan[h].currentLoop, e.step % PatternLength)

\* drum_house at step 12 of the second bar: kick and snare together
C20_Witness ==
  /\ chan["left"].currentLoop = "drum_house"
  /\ \E e \in Events("left") :
       /\ ~e.dog
       /\ e.step = PatternLength + 12
       /\ e.voices = {Voice("kick", 0), Voice("snare", 0)}

\* C18 as stated: after the engine is stopped both channels are stopped, hold
\* no pending wake, dispatch nothing, and their graph resources are released
\* (output disconnected, free-running oscillator stopped).
C18_TeardownReleasesGraph ==
  lastOp.op = "engineStop" =>
    \A h \in Hands :
      /\ ~chan[h].isPlaying
      /\ chan[h].timeouts = {}
      /\ chan[h].out = <<>>
      /\ chan[h].masterOutput = "disconnected"
      /\ chan[h].flangerLFO = "stopped"

\* the part of C18 the engine does: after the engine is stopped both channels
\* are stopped, hold no pending wake and dispatch nothing.
C18_TeardownStopsChannels ==
  lastOp.op = "engineStop" =>
    \A h \in Hands :
      /\ ~chan[h].isPlaying
      /\ chan[h].timeouts = {}
      /\ chan[h].out = <<>>

\* the engine stopped while both channels were running and had dispatched
\* steps; the graph is still connected and the oscillators still run
C18_Witness ==
  /\ lastOp.op = "engineStop"
  /\ \A h \in Hands :
       /\ chan[h].timerID # 0
       /\ chan[h].currentStep >= 1
       /\ ~chan[h].isPlaying
       /\ chan[h].masterOutput = "connected"
       /\ chan[h].flangerLFO = "started"

\* C15 as stated: every gesture update delivered after a rotation toggle
\* carries the toggled value.  With the filter enabled, an update with the
\* rotation outside the deadzone and the hand open moves the rotation filter
\* off bypass; with it disabled, an update leaves the filter on bypass.
C15_ToggleReachesEngine ==
  (lastOp.op = "frame" /\ lastOp.n # 0) =>
    LET c == Controls[lastOp.n]["left"]
        bypass == /\ chan["left"].rotType = "lowpass"
                  /\ chan["left"].rotFreq = RotOpenFreq
    IN  IF appState.isRotationActive["left"]
        THEN ((c.rotation < -100 \/ c.rotation > 100) /\ c.spread >= FistSpread)
               => ~bypass
        ELSE bypass

\* the camera is live, the left rotation filter has been enabled since, and
\* an update with an open hand rolled a quarter turn has left the rotation
\* filter on bypass
C15_Witness ==
  /\ lastOp.op = "frame"
  /\ lastOp.n = 2
  /\ appState.status = "LIVE"
  /\ appState.isRotationActive["left"]
  /\ ~refs.predictWebcam.isRotationActive["left"]
  /\ appState.values["left"].rotation = One
  /\ chan["left"].rotType = "lowpass"
  /\ chan["left"].rotFreq = RotOpenFreq

\* C16: a frame in which a hand is not detected changes nothing of that
\* hand's channel but its presence-gate target, which becomes 0: the mapping,
\* every effect parameter target, the rotation filter, the loop and the
\* sequencer clock stay as they were.
C16_AbsentHandOnlyGate ==
  [][ (lastOp'.op = "frame" /\ ~engineDogMode') =>
        /\ chan'["right"] = [Quiet["right"] EXCEPT !.presence = 0]
        /\ lastOp'.n = 0 => chan'["left"] = [Quiet["left"] EXCEPT !.presence = 0]
    ]_vars

\* a frame without the left hand on a channel that is playing a loop, whose
\* gate was open and whose targets an earlier update had moved
C16_Witness ==
  /\ lastOp.op = "frame"
  /\ lastOp.n = 0
  /\ chan["left"].isPlaying
  /\ chan["left"].currentLoop = "drum_house"
  /\ chan["left"].timeouts # {}
  /\ chan["left"].flangerWet = One
  /\ chan["left"].gain # DefaultGain
  /\ chan["left"].presence = 0
  /\ appState.values["left"].spread = One

\* C17 as stated: a frame whose wrist and middle-finger base are less than
\* two hundredths apart is skipped for that hand: no update is delivered, so
\* no parameter target of the channel changes.
C17_NearZeroScaleSkipped ==
  [][ (/\ lastOp'.op = "frame"
       /\ lastOp'.n # 0
       /\ HandScale(HandLandmarks[lastOp'.n]) < 2) =>
        Targets(chan'["left"]) = Targets(chan["left"])
    ]_vars

\* a frame whose wrist and middle-finger base coincide has been delivered as
\* an update: full spread, zero z and a full turn reached the engine
C17_Witness ==
  /\ lastOp.op = "frame"
  /\ lastOp.n = 4
  /\ HandScale(HandLandmarks[4]) = 0
  /\ appState.values["left"] =
       [x |-> 500, y |-> 700, z |-> 0, spread |-> One, rotation |-> One]
  /\ chan["left"].gain = 700
  /\ chan["left"].flangerWet = One

\* C19: a positive detection leaves the expiry one cooldown ahead; every
\* processed frame sets the engine's override mode active exactly when the
\* expiry is still ahead; a frame without a positive detection that comes a
\* cooldown or more after the last one leaves override mode inactive.
C19_OverrideExpiry ==
  [][ lastOp'.op = "frame" =>
        /\ lastOp'.arg = "dog" => refs'.dogModeExpiry = DOG_MODE_COOLDOWN_MS
        /\ engineDogMode' = (0 < refs'.dogModeExpiry)
        /\ \A h \in Hands : chan'[h].isDogMode = engineDogMode'
        /\ (lastOp'.arg # "dog" /\ refs.sinceDetection >= DOG_MODE_COOLDOWN_MS)
             => ~engineDogMode'
        /\ refs.sinceDetection < DOG_MODE_COOLDOWN_MS => engineDogMode'
    ]_vars

\* a frame without a detection, two clock steps after a positive one, has
\* kept override mode active
C19_Witness ==
  /\ lastOp.op = "frame"
  /\ lastOp.arg = ""
  /\ engineDogMode
  /\ refs.sinceDetection = 2 * ClockStep
  /\ refs.dogModeExpiry = DOG_MODE_COOLDOWN_MS - 2 * ClockStep

\* C21: selecting a loop id outside the catalog leaves the channel without a
\* loop and starts nothing: the sequencer runs or rests as before and arms no
\* wake.  With override mode inactive a wake of a channel without a loop
\* calls no generator.  An update on a channel with an axis mapped to an
\* effect type outside EffectType leaves every parameter target as the same
\* update would with that axis mapped to NONE.
C21_UnknownIdsAreInert ==
  [][ \A h \in FxHands :
        /\ (/\ lastOp'.op = "selectLoop"
            /\ lastOp'.hand = h
            /\ lastOp'.arg \notin AVAILABLE_LOOPS \cup {NoLoop}) =>
             chan'[h] = [Quiet[h] EXCEPT !.currentLoop = NoLoop]
        /\ (/\ lastOp'.op = "wake"
            /\ lastOp'.hand = h
            /\ chan[h].currentLoop = NoLoop
            /\ ~chan[h].isDogMode) =>
             \A i \in 1..Len(chan'[h].out) : chan'[h].out[i].voices = {}
        /\ (lastOp'.op = "updateHand" /\ lastOp'.hand = h) =>
             \A a \in Axes :
               AxisEffect(chan[h], a) \notin EffectTypes =>
                 Targets(chan'[h]) =
                   Targets(UpdateFrame(AssignAxis(chan[h], a, "NONE"),
                                       GestureFrames[lastOp'.n]))
    ]_vars

\* a wake of a running channel whose loop was replaced by an id outside the
\* catalog has dispatched a step without a generator call, while its y axis
\* is mapped to an effect type outside EffectType and the volume rests at
\* what the last VOLUME update left
C21_Witness ==
  /\ lastOp.op = "wake"
  /\ appState.activeLoopId["left"] = "drum_techno"
  /\ chan["left"].currentLoop = NoLoop
  /\ chan["left"].isPlaying
  /\ Len(chan["left"].out) >= 1
  /\ chan["left"].yEffect = "CHORUS"
  /\ chan["left"].zEffect = "VOLUME"

\* C22: after any sequence of updates (with control values inside or outside
\* [0,1]), mapping changes, presence changes and override-mode changes, every
\* parameter target is in its range: volume in [0,1], the mappable filter in
\* [100,20000] Hz as a low-pass and in [0,10000] Hz as a high-pass, reverb
\* send in [0,2], delay feedback in [0,0.8], flanger wet in [0,1], presence
\* gate in [0,1].
C22_TargetsInRange ==
  \A h \in Hands :
    /\ chan[h].gain \in 0..One
    /\ chan[h].filterType = "lowpass" => chan[h].filterFreq \in 100..20000
    /\ chan[h].filterType = "highpass" => chan[h].filterFreq \in 0..10000
    /\ chan[h].filterType \in {"lowpass", "highpass"}
    /\ chan[h].reverbGain \in 0..(2 * One)
    /\ chan[h].delayFeedback \in 0..((8 * One) \div 10)
    /\ chan[h].delayFeedback < One
    /\ chan[h].flangerWet \in 0..One
    /\ chan[h].presence \in 0..One

\* an update whose x is 2.5 and whose y is -0.5 has driven a delay on x to
\* its top and a reverb on y to its bottom, under override mode
C22_Witness ==
  /\ lastOp.op = "updateHand"
  /\ chan["left"].xEffect = "DELAY"
  /\ chan["left"].yEffect = "REVERB"
  /\ chan["left"].spreadEffect = "FLANGER"
  /\ chan["left"].flangerWet = 0
  /\ chan["left"].gain = DefaultGain
  /\ chan["left"].delayFeedback = (8 * One) \div 10
  /\ chan["left"].reverbGain = 0
  /\ chan["left"].isDogMode

\* the mapping table of a channel
MappingTable(ch) ==
  [x |-> ch.xEffect, y |-> ch.yEffect, z |-> ch.zEffect,
   spread |-> ch.spreadEffect]

\* the sequencer fields of a channel
Clock(ch) ==
  [isPlaying |-> ch.isPlaying, nextNoteTime |-> ch.nextNoteTime,
   currentStep |-> ch.currentStep, timerID |-> ch.timerID,
   timeouts |-> ch.timeouts, currentLoop |-> ch.currentLoop]

\* C23: wherever a wake of a channel is due, running the wake and then a
\* control mutation (an update with any frame, or a setMapping of any axis
\* to any effect) leaves the channel as running the mutation and then the
\* wake does: same mapping, same targets, same sequencer clock, same
\* dispatched events.  The wake changes no mapping and no target; the
\* mutation changes no sequencer field and dispatches nothing.
C23_WakeCommutes ==
  \A h \in FxHands :
    \A t \in chan[h].timeouts :
      t.due <= 0 =>
        LET base == [Quiet[h] EXCEPT !.timeouts = @ \ {t}]
            woken == Scheduler(base, NoDraws)
        IN  /\ Targets(woken) = Targets(base)
            /\ MappingTable(woken) = MappingTable(base)
            /\ \A i \in 1..Len(GestureFrames) :
                 LET moved == UpdateFrame(base, GestureFrames[i]) IN
                 /\ Clock(moved) = Clock(base)
                 /\ moved.out = base.out
                 /\ Scheduler(moved, NoDraws) = UpdateFrame(woken, GestureFrames[i])
            /\ \A a \in Axes, e \in EffectTypes :
                 LET moved == SetMapping(base, a, e) IN
                 /\ Clock(moved) = Clock(base)
                 /\ moved.out = base.out
                 /\ Scheduler(moved, NoDraws) = SetMapping(woken, a, e)

\* an update has just moved the volume of a running channel whose due wake
\* will dispatch a step of its loop
C23_Witness ==
  /\ lastOp.op = "updateHand"
  /\ chan["left"].isPlaying
  /\ chan["left"].currentLoop = "drum_house"
  /\ chan["left"].currentStep >= 1
  /\ chan["left"].nextNoteTime < LookAhead
  /\ chan["left"].gain # DefaultGain
  /\ \E t \in chan["left"].timeouts : t.due <= 0

\* C24: a wake dispatches one event per step, in step order from the step it
\* found, at the instants nextNoteTime, nextNoteTime + d, ... that lie below
\* now + 100 ms and no other; it leaves nextNoteTime at the first such
\* instant at or beyond now + 100 ms.  The channel, still running, then
\* holds exactly one pending wake, due 25 ms later.  The scheduler run on
\* the same channel not running arms none.
C24_WakeBatch ==
  [][ lastOp'.op = "wake" =>
        LET h == lastOp'.hand
            old == chan[h]
            new == chan'[h]
            o == new.out
            d == SecondsPer16th(old.bpm)
            fired == old.timeouts \ new.timeouts
            armed == new.timeouts \ old.timeouts
            idle == [Quiet[h] EXCEPT !.isPlaying = FALSE, !.timeouts = {}]
        IN  /\ \A i \in 1..Len(o) :
                 /\ o[i].step = old.currentStep + i - 1
                 /\ o[i].time = old.nextNoteTime + (i - 1) * d
                 /\ o[i].time < LookAhead
            /\ new.currentStep = old.currentStep + Len(o)
            /\ new.nextNoteTime = old.nextNoteTime + Len(o) * d
            /\ new.nextNoteTime >= LookAhead
            /\ old.isPlaying /\ new.isPlaying
            /\ Cardinality(fired) = 1
            /\ Cardinality(new.timeouts) = 1
            /\ \A t \in armed : t.due = TimerInterval /\ t.id = new.timerID
            /\ Cardinality(armed) = 1
            /\ Scheduler(idle, NoDraws).timeouts = {}
            /\ Scheduler(idle, NoDraws).nextNoteTime >= LookAhead
    ]_vars

\* a late wake at the fastest tempo that dispatched three steps, not the
\* first of the run, and armed the next wake
C24_Witness ==
  /\ lastOp.op = "wake"
  /\ lastOp.n >= Quantum
  /\ chan[lastOp.hand].bpm = MaxBpm
  /\ Len(chan[lastOp.hand].out) = 3
  /\ chan[lastOp.hand].out[1].step >= 1
  /\ \E t \in chan[lastOp.hand].timeouts : t.due = TimerInterval

\* C25: a start of the engine leaves a channel that was stopped running at
\* step 0 with nextNoteTime = now + 100 ms, nothing dispatched and one wake
\* armed; it leaves a channel that was running as it was: same nextNoteTime,
\* same step, same pending wake.
C25_StartSeedsClock ==
  [][ lastOp'.op = "engineStart" =>
        \A h \in Hands :
          IF chan[h].isPlaying
          THEN chan'[h] = Quiet[h]
          ELSE /\ chan'[h].isPlaying
               /\ chan'[h].nextNoteTime = LookAhead
               /\ chan'[h].currentStep = 0
               /\ chan'[h].out = <<>>
               /\ chan'[h].timeouts =
                    {[id |-> chan'[h].timerID, due |-> TimerInterval]}
    ]_vars

\* start called on an engine whose channels are running, have dispatched
\* steps and hold a wake that is due
C25_Witness ==
  /\ lastOp.op = "engineStart"
  /\ \A h \in Hands :
       /\ chan[h].isPlaying
       /\ chan[h].currentStep >= 1
       /\ chan[h].nextNoteTime # LookAhead
       /\ \E t \in chan[h].timeouts : t.due <= 0

\* C26: a wake returns.  At any tempo from 40 to 300 the step duration d is
\* positive, and a wake that fires L late has dispatched at most
\* (25 ms + L) / d + 1 events when nextNoteTime reaches now + 100 ms, where
\* it stops.
C26_WakeTerminates ==
  lastOp.op = "wake" =>
    LET ch == chan[lastOp.hand]
        d == SecondsPer16th(ch.bpm)
    IN  /\ ch.bpm \in MinBpm..MaxBpm
        /\ d > 0
        /\ Len(ch.out) <= (TimerInterval + lastOp.n) \div d + 1
        /\ ch.nextNoteTime >= LookAhead

\* a wake as late as a wake can be, at the fastest tempo, that dispatched
\* three events or more and stopped
C26_Witness ==
  /\ lastOp.op = "wake"
  /\ lastOp.n = Horizon
  /\ chan[lastOp.hand].bpm = MaxBpm
  /\ Len(chan[lastOp.hand].out) >= 3
  /\ chan[lastOp.hand].nextNoteTime >= LookAhead

\* C27: the events of a run are steps 0, 1, 2, ... spaced by the step
\* duration in force at each advance.  A step that takes a channel from
\* stopped to running leaves it at step 0 with nothing dispatched.  A wake
\* dispatches the steps currentStep, currentStep + 1, ... at nextNoteTime,
\* nextNoteTime + d, ... and leaves currentStep and nextNoteTime one step
\* after its last event (or untouched when it dispatches nothing).  Every
\* other step on a running channel dispatches nothing and leaves currentStep
\* and the instant nextNoteTime as they were.
C27_StepsInOrder ==
  [][ \A h \in Hands :
        LET old == chan[h]
            new == chan'[h]
            o == new.out
            d == SecondsPer16th(old.bpm)
            passed == IF lastOp'.op = "tick" THEN Quantum ELSE 0
        IN  IF lastOp'.op = "wake" /\ lastOp'.hand = h
            THEN /\ \A i \in 1..Len(o) :
                      /\ o[i].step = old.currentStep + (i - 1)
                      /\ o[i].time = old.nextNoteTime + (i - 1) * d
                 /\ new.currentStep = old.currentStep + Len(o)
                 /\ new.nextNoteTime = old.nextNoteTime + Len(o) * d
            ELSE /\ o = <<>>
                 /\ (old.isPlaying /\ new.isPlaying) =>
                      /\ new.currentStep = old.currentStep
                      /\ new.nextNoteTime = old.nextNoteTime - passed
                 /\ (~old.isPlaying /\ new.isPlaying) =>
                      new.currentStep = 0
    ]_vars

\* a late wake that continued a run from step 1 with a batch of two events
\* or more, after the tempo had changed during the run
C27_Witness ==
  /\ lastOp.op = "wake"
  /\ lastOp.n > 0
  /\ chan[lastOp.hand].bpm = MaxBpm
  /\ Len(chan[lastOp.hand].out) >= 2
  /\ chan[lastOp.hand].out[1].step = 1
  /\ chan[lastOp.hand].out[2].step = 2
  /\ (chan[lastOp.hand].out[1].time + Horizon) % SecondsPer16th(MaxBpm) # 0

\* the order in which update applies the axes, and the effect types that
\* write one physical parameter
AxisOrder == <<"x", "y", "z", "spread">>
SharedParameters ==
  {{"VOLUME"}, {"LPF", "HPF"}, {"REVERB"}, {"DELAY"}, {"FLANGER"}}

\* the control value a frame carries for an axis
AxisValue(f, axis) ==
  CASE axis = "x" -> f.x
    [] axis = "y" -> f.y
    [] axis = "z" -> f.z
    [] axis = "spread" -> f.spread

\* C28: after an update on a channel with two or more axes mapped to effect
\* types that write the same parameter (the same type, or LPF and HPF), the
\* parameter is what the last of those axes in the order x, y, z, spread
\* writes: applying that axis's effect with that axis's value again changes
\* nothing.  With x on LPF, y on HPF and neither z nor spread on the filter,
\* the filter is a high-pass at y * 10000 Hz.
C28_LastAxisWins ==
  GestureDone =>
    LET ch == chan[lastOp.hand]
        f == LastFrame
    IN  /\ \A g \in SharedParameters :
             LET on == {i \in 1..Len(AxisOrder) : AxisEffect(ch, AxisOrder[i]) \in g}
             IN  Cardinality(on) >= 2 =>
                   LET last == AxisOrder[CHOOSE i \in on : \A j \in on : j <= i]
                   IN  ApplyEffect(ch, AxisEffect(ch, last), AxisValue(f, last),
                                   f.spread < FistSpread) = ch
        /\ (/\ ch.xEffect = "LPF" /\ ch.yEffect = "HPF"
            /\ ch.zEffect \notin {"LPF", "HPF"}
            /\ ch.spreadEffect \notin {"LPF", "HPF"}) =>
             /\ ch.filterType = "highpass"
             /\ ch.filterFreq = (Max(0, Min(One, f.y)) * 10000) \div One

\* an update with x = 0 on LPF and y = 0.5 on HPF has left the filter a
\* high-pass at 5000 Hz, and with z = 1 and spread = 0.15 both on REVERB has
\* left the reverb send at 0.3
C28_Witness ==
  /\ GestureDone
  /\ lastOp.n = 4
  /\ chan[lastOp.hand].xEffect = "LPF"
  /\ chan[lastOp.hand].yEffect = "HPF"
  /\ chan[lastOp.hand].zEffect = "REVERB"
  /\ chan[lastOp.hand].spreadEffect = "REVERB"
  /\ chan[lastOp.hand].filterType = "highpass"
  /\ chan[lastOp.hand].filterFreq = 5000
  /\ chan[lastOp.hand].reverbGain = 2 * FistSpread

\* C29: after any sequence of setBpm, setDogMode, start, stop, updateHand
\* and updateMapping on the engine, both channels hold the same tempo and
\* each channel's override flag equals the engine's override flag.
C29_ChannelsAgree ==
  /\ chan["left"].bpm = chan["right"].bpm
  /\ \A h \in Hands : chan[h].isDogMode = engineDogMode

\* a gesture update made with the tempo moved to the maximum and override
\* mode on: both channels carry the new tempo and the flag
C29_Witness ==
  /\ lastOp.op = "updateHand"
  /\ engineDogMode
  /\ \A h \in Hands : chan[h].bpm = MaxBpm /\ chan[h].isDogMode
  /\ chan["left"].xEffect # chan["right"].xEffect

\* C30: a frame that turns override mode off clears the engine's and both
\* channels' override flags and then sets the presence gates, so at the end
\* of that frame each channel's gate target is 1 when its hand was detected
\* in the frame and 0 when it was not.
C30_OverrideEndReleasesGate ==
  [][ (lastOp'.op = "frame" /\ engineDogMode /\ ~engineDogMode') =>
        /\ \A h \in Hands : ~chan'[h].isDogMode
        /\ chan'["left"].presence = (IF lastOp'.n # 0 THEN 1000 ELSE 0)
        /\ chan'["right"].presence =
             (IF lastOp'.hand = "right" THEN 1000 ELSE 0)
    ]_vars

\* the frame that ended override mode saw the right hand and not the left:
\* the left gate is closed and the right gate open
C30_Witness ==
  /\ lastOp.op = "frame"
  /\ lastOp.arg = "end"
  /\ lastOp.n = 0
  /\ lastOp.hand = "right"
  /\ ~engineDogMode
  /\ chan["left"].presence = 0
  /\ chan["right"].presence = 1000
====
